---- MODULE Spec2Model ----
(***************************************************************************)
(* A2D2 -> COCO annotation converter (tools/dataset_converters/a2d2.py).   *)
(*                                                                         *)
(* The module models main() as a state machine over its local state (the   *)
(* pair list, the splits, the per-split counters and entry lists, the      *)
(* files written so far) and the helper functions as operators.  Python    *)
(* values are encoded as follows:                                          *)
(*   - an optional value (an int or None, a dict or None) is a sequence of *)
(*     length 0 (None) or 1;                                               *)
(*   - a function that may raise returns a record whose field "raised"     *)
(*     names the exception ("none" when it returns normally);              *)
(*   - a label path is the record of the three path tokens label2img_path  *)
(*     rewrites plus the frame number n; a label file is the record        *)
(*     [ok, anns]: ok = FALSE when open()/json.load() raises, anns the     *)
(*     file's records in document order.                                   *)
(***************************************************************************)
EXTENDS Integers, Sequences, FiniteSets, TLC

VARIABLES
    style,            \* args.style
    val_N,            \* args.val
    test_N,           \* args.test
    label_files,      \* the dataset on disk: label file n -> its content
    img_label_pairs,  \* main's img_label_pairs
    splits,           \* main's splits dict (train / val / test)
    pc,               \* position in main
    split_i,          \* index of the split the outer loop is at
    pos,              \* index of the pair the inner loop is at
    img_idx,          \* per-split image id counter
    ann_idx,          \* per-split annotation id counter
    img_entries,      \* per-split image entries
    ann_entries,      \* per-split annotation entries
    written,          \* the JSON files written so far, in order
    read_log,         \* the label files read so far, in order
    error,            \* the exception that ended the run ("none" if none)
    call,             \* arguments of a direct call of a builder function
    ret               \* what that call returned

run_vars == <<style, val_N, test_N, label_files, img_label_pairs, splits, pc,
              split_i, pos, img_idx, ann_idx, img_entries, ann_entries,
              written, read_log, error>>
fn_vars == <<call, ret>>
vars == <<run_vars, fn_vars>>

----------------------------------------------------------------------------
(* Bounds of the model *)

MaxPairs == 3   \* label files in the dataset
MaxVal == 2     \* largest --val
MaxTest == 1    \* largest --test
MaxAnns == 2    \* records in a label file handed directly to gen_ann_entries
MaxIdx == 2     \* largest ann_idx / img_idx handed directly to a builder

----------------------------------------------------------------------------
(* Constants of the program *)

DEFAULT_AREA == 100
IMG_WIDTH == 1920
IMG_HEIGHT == 1208

None == <<>>
Some(v) == <<v>>

CATEGORY_A2D2_IDX ==
    [c \in {"Pedestrian", "Cyclist", "MotorBiker", "Car", "VanSUV", "Truck",
            "Bus", "UtilityVehicle", "Trailer", "CaravanTransporter",
            "EmergencyVehicle", "Motorcycle", "Bicycle", "Animal"} |->
        CASE c = "Pedestrian" -> 0
          [] c = "Cyclist" -> 1
          [] c = "MotorBiker" -> 2
          [] c = "Car" -> 3
          [] c = "VanSUV" -> 4
          [] c = "Truck" -> 5
          [] c = "Bus" -> 6
          [] c = "UtilityVehicle" -> 7
          [] c = "Trailer" -> 8
          [] c = "CaravanTransporter" -> 9
          [] c = "EmergencyVehicle" -> 10
          [] c = "Motorcycle" -> 11
          [] c = "Bicycle" -> 12
          [] c = "Animal" -> 13]

CATEGORY_CITYSCAPES_IDX ==
    [c \in {"Pedestrian", "Cyclist", "MotorBiker", "Car", "VanSUV", "Truck",
            "Bus", "Motorcycle", "Bicycle", "UtilityVehicle", "Trailer",
            "CaravanTransporter", "EmergencyVehicle", "Animal"} |->
        CASE c = "Pedestrian" -> Some(24)
          [] c = "Cyclist" -> Some(25)
          [] c = "MotorBiker" -> Some(25)
          [] c = "Car" -> Some(26)
          [] c = "VanSUV" -> Some(26)
          [] c = "Truck" -> Some(27)
          [] c = "Bus" -> Some(28)
          [] c = "Motorcycle" -> Some(32)
          [] c = "Bicycle" -> Some(33)
          [] c = "UtilityVehicle" -> None
          [] c = "Trailer" -> None
          [] c = "CaravanTransporter" -> None
          [] c = "EmergencyVehicle" -> None
          [] c = "Animal" -> None]

CATEGORIES_CITYSCAPES ==
    << [id |-> 24, name |-> "person"],
       [id |-> 25, name |-> "rider"],
       [id |-> 26, name |-> "car"],
       [id |-> 27, name |-> "truck"],
       [id |-> 28, name |-> "bus"],
       [id |-> 31, name |-> "train"],
       [id |-> 32, name |-> "motorcycle"],
       [id |-> 33, name |-> "bicycle"] >>

----------------------------------------------------------------------------
(* Helper functions of the program *)

\* conv_category: the table lookup of the target style; a token missing from
\* the table raises KeyError, an unknown style raises Exception.
conv_category(category_str, target_dataset) ==
    IF target_dataset = "a2d2"
    THEN IF category_str \in DOMAIN CATEGORY_A2D2_IDX
         THEN [raised |-> "none",
               value |-> Some(CATEGORY_A2D2_IDX[category_str])]
         ELSE [raised |-> "KeyError", value |-> None]
    ELSE IF target_dataset = "cityscapes"
    THEN IF category_str \in DOMAIN CATEGORY_CITYSCAPES_IDX
         THEN [raised |-> "none",
               value |-> CATEGORY_CITYSCAPES_IDX[category_str]]
         ELSE [raised |-> "KeyError", value |-> None]
    ELSE [raised |-> "Exception", value |-> None]

\* label2img_path: the three textual replacements.
label2img_path(label_path) ==
    [label_path EXCEPT !.dir = IF @ = "label3D" THEN "camera" ELSE @,
                       !.infix = IF @ = "label3D" THEN "camera" ELSE @,
                       !.ext = IF @ = "json" THEN "png" ELSE @]

\* The label path glob finds for label file n.
LabelPath(n) == [dir |-> "label3D", infix |-> "label3D", ext |-> "json", n |-> n]

\* collect_img_label_path_pairs: one (img_path, label_path) pair per label
\* file, in the order glob lists them.
collect_img_label_path_pairs(files) ==
    [k \in 1..Len(files) |-> <<label2img_path(LabelPath(k)), LabelPath(k)>>]

\* Python's list[a:b] for a list of length n: a negative index counts from
\* the end, and both indices are clipped to 0..n.
PyIndex(n, i) ==
    LET j == IF i < 0 THEN i + n ELSE i
    IN  IF j < 0 THEN 0 ELSE IF j > n THEN n ELSE j

PySlice(list, a, b) ==
    LET lo == PyIndex(Len(list), a)
        hi == PyIndex(Len(list), b)
    IN  IF lo < hi THEN SubSeq(list, lo + 1, hi) ELSE <<>>

RECURSIVE SplitLoop(_, _, _, _, _, _)
SplitLoop(sample_list, split_Ns, k, idx0, idx1, split_lists) ==
    IF k > Len(split_Ns)
    THEN split_lists
    ELSE SplitLoop(sample_list, split_Ns, k + 1,
                   idx0 + split_Ns[k], idx1 + split_Ns[k],
                   Append(split_lists,
                          PySlice(sample_list, idx0, idx1 + split_Ns[k])))

RECURSIVE SplitLoopOverlap(_, _, _, _, _, _)
SplitLoopOverlap(sample_list, split_Ns, k, idx0, idx1, split_lists) ==
    IF k > Len(split_Ns)
    THEN split_lists
    ELSE SplitLoopOverlap(sample_list, split_Ns, k + 1,
                          idx0, idx1 + split_Ns[k],
                          Append(split_lists,
                                 PySlice(sample_list, idx0, idx1 + split_Ns[k])))

\* split_sample_list with the line "idx0 += split_N" lost.
split_sample_list_overlap(sample_list, split_Ns) ==
    SplitLoopOverlap(sample_list, split_Ns, 1, 0, 0, <<>>)

split_sample_list(sample_list, split_Ns) ==
    SplitLoop(sample_list, split_Ns, 1, 0, 0, <<>>)

gen_img_entry(img_path, img_idx_) ==
    [id |-> img_idx_, file_name |-> img_path,
     width |-> IMG_WIDTH, height |-> IMG_HEIGHT]

\* The entry gen_ann_entry builds once the category is known.
AnnEntry(ann_raw, ann_idx_, img_idx_, category_id) ==
    [id |-> ann_idx_,
     image_id |-> img_idx_,
     category_id |-> category_id,
     bbox |-> << ann_raw.bbox[1],
                 ann_raw.bbox[2],
                 ann_raw.bbox[3] - ann_raw.bbox[1],
                 ann_raw.bbox[4] - ann_raw.bbox[2] >>,
     area |-> DEFAULT_AREA,
     iscrowd |-> 0]

\* gen_ann_entry with the image id taken from the annotation counter.
gen_ann_entry_wrong_image(ann_raw, ann_idx_, img_idx_, dataset_style) ==
    LET cat == conv_category(ann_raw.class, dataset_style)
    IN  IF cat.raised # "none"
        THEN [raised |-> cat.raised, entry |-> None, ann_idx |-> ann_idx_]
        ELSE IF cat.value = None
        THEN [raised |-> "none", entry |-> None, ann_idx |-> ann_idx_]
        ELSE [raised |-> "none",
              entry |-> Some(AnnEntry(ann_raw, ann_idx_, ann_idx_, cat.value[1])),
              ann_idx |-> ann_idx_ + 1]

\* gen_ann_entry with width and height left as the far corner.
gen_ann_entry_corner_bbox(ann_raw, ann_idx_, img_idx_, dataset_style) ==
    LET cat == conv_category(ann_raw.class, dataset_style)
    IN  IF cat.raised # "none"
        THEN [raised |-> cat.raised, entry |-> None, ann_idx |-> ann_idx_]
        ELSE IF cat.value = None
        THEN [raised |-> "none", entry |-> None, ann_idx |-> ann_idx_]
        ELSE [raised |-> "none",
              entry |-> Some([AnnEntry(ann_raw, ann_idx_, img_idx_, cat.value[1])
                                EXCEPT !.bbox = ann_raw.bbox]),
              ann_idx |-> ann_idx_ + 1]

\* gen_ann_entry that consumes an id for an ignored category too.
gen_ann_entry_always_counts(ann_raw, ann_idx_, img_idx_, dataset_style) ==
    LET cat == conv_category(ann_raw.class, dataset_style)
    IN  IF cat.raised # "none"
        THEN [raised |-> cat.raised, entry |-> None, ann_idx |-> ann_idx_]
        ELSE IF cat.value = None
        THEN [raised |-> "none", entry |-> None, ann_idx |-> ann_idx_ + 1]
        ELSE [raised |-> "none",
              entry |-> Some(AnnEntry(ann_raw, ann_idx_, img_idx_, cat.value[1])),
              ann_idx |-> ann_idx_ + 1]

\* gen_ann_entry that treats a token missing from the table as ignored.
gen_ann_entry_lenient(ann_raw, ann_idx_, img_idx_, dataset_style) ==
    LET cat == conv_category(ann_raw.class, dataset_style)
    IN  IF cat.raised = "Exception"
        THEN [raised |-> cat.raised, entry |-> None, ann_idx |-> ann_idx_]
        ELSE IF cat.value = None
        THEN [raised |-> "none", entry |-> None, ann_idx |-> ann_idx_]
        ELSE [raised |-> "none",
              entry |-> Some(AnnEntry(ann_raw, ann_idx_, img_idx_, cat.value[1])),
              ann_idx |-> ann_idx_ + 1]

gen_ann_entry(ann_raw, ann_idx_, img_idx_, dataset_style) ==
    LET cat == conv_category(ann_raw.class, dataset_style)
    IN  IF cat.raised # "none"
        THEN [raised |-> cat.raised, entry |-> None, ann_idx |-> ann_idx_]
        ELSE IF cat.value = None
        THEN [raised |-> "none", entry |-> None, ann_idx |-> ann_idx_]
        ELSE [raised |-> "none",
              entry |-> Some(AnnEntry(ann_raw, ann_idx_, img_idx_, cat.value[1])),
              ann_idx |-> ann_idx_ + 1]

\* The for loop of gen_ann_entries over the records of the file.
RECURSIVE AnnLoop(_, _, _, _, _, _)
AnnLoop(anns, j, ann_idx_, img_idx_, dataset_style, entries) ==
    IF j > Len(anns)
    THEN [raised |-> "none", entries |-> entries, ann_idx |-> ann_idx_]
    ELSE LET r == gen_ann_entry(anns[j], ann_idx_, img_idx_, dataset_style)
         IN  IF r.raised # "none"
             THEN [raised |-> r.raised, entries |-> <<>>, ann_idx |-> ann_idx_]
             ELSE AnnLoop(anns, j + 1, r.ann_idx, img_idx_, dataset_style,
                          IF r.entry # None
                          THEN Append(entries, r.entry[1])
                          ELSE entries)

\* gen_ann_entries: open and parse the label file, then the loop.
gen_ann_entries(file, ann_idx_, img_idx_, dataset_style) ==
    IF ~file.ok
    THEN [raised |-> "FileError", entries |-> <<>>, ann_idx |-> ann_idx_]
    ELSE AnnLoop(file.anns, 1, ann_idx_, img_idx_, dataset_style, <<>>)

gen_cat_entries(dataset_style) ==
    IF dataset_style = "a2d2"
    THEN [raised |-> "NotImplementedError", value |-> <<>>]
    ELSE IF dataset_style = "cityscapes"
    THEN [raised |-> "none", value |-> CATEGORIES_CITYSCAPES]
    ELSE [raised |-> "Exception", value |-> <<>>]

\* write_json_file: the document written for one split (main creates the
\* output directory before, so the isdir test passes).
write_json_file(cat_entries, img_entries_, ann_entries_, split) ==
    [split |-> split,
     categories |-> cat_entries,
     images |-> img_entries_,
     annotations |-> ann_entries_]

----------------------------------------------------------------------------
(* Inputs *)

Styles == {"a2d2", "cityscapes", "foo"}
SupportedStyles == {"a2d2", "cityscapes"}

\* Class tokens of label files: the fourteen A2D2 classes and one token that
\* is in neither table.
Tokens == DOMAIN CATEGORY_A2D2_IDX \cup {"Unknown"}

BBoxes == { <<10, 20, 30, 50>>, <<0, 0, 5, 5>>, <<30, 50, 10, 20>> }

Rec(c, b) == [class |-> c, bbox |-> b]

\* The label files a dataset of the main run is made of: a kept and an
\* ignored record, only an ignored record, a record with an unknown token
\* after a good one, and a file that cannot be opened or parsed.
LabelFiles ==
    { [ok |-> TRUE, anns |-> << Rec("Pedestrian", <<10, 20, 30, 50>>),
                                Rec("UtilityVehicle", <<0, 0, 5, 5>>) >>],
      [ok |-> TRUE, anns |-> << Rec("Animal", <<0, 0, 5, 5>>) >>],
      [ok |-> TRUE, anns |-> << Rec("Car", <<10, 20, 30, 50>>),
                                Rec("Unknown", <<0, 0, 5, 5>>) >>],
      [ok |-> FALSE, anns |-> <<>>] }

Datasets == UNION { [1..n -> LabelFiles] : n \in 0..MaxPairs }

Perms(n) == { f \in [1..n -> 1..n] : \A i, j \in 1..n : f[i] = f[j] => i = j }

SplitNames == <<"train", "val", "test">>

NoCall == [op |-> "none", file |-> [ok |-> FALSE, anns |-> <<>>],
           ann_idx |-> 0, img_idx |-> 0, style |-> "none"]
NoRet == [done |-> FALSE, raised |-> "none", entries |-> <<>>, ann_idx |-> 0]

\* The split the outer loop of main is at.
CurSplit == splits[SplitNames[split_i]]

----------------------------------------------------------------------------
(* The run of main *)

Init ==
    /\ style \in Styles
    /\ val_N \in 0..MaxVal
    /\ test_N \in 0..MaxTest
    /\ label_files \in Datasets
    /\ img_label_pairs = <<>>
    /\ splits = [train |-> <<>>, val |-> <<>>, test |-> <<>>]
    /\ pc = "collect"
    /\ split_i = 0
    /\ pos = 0
    /\ img_idx = 0
    /\ ann_idx = 0
    /\ img_entries = <<>>
    /\ ann_entries = <<>>
    /\ written = <<>>
    /\ read_log = <<>>
    /\ error = "none"
    /\ call = NoCall
    /\ ret = NoRet

\* img_label_pairs = collect_img_label_path_pairs(data_dir)
Collect ==
    /\ pc = "collect"
    /\ img_label_pairs' = collect_img_label_path_pairs(label_files)
    /\ pc' = "shuffle"
    /\ UNCHANGED <<style, val_N, test_N, label_files, splits, split_i, pos,
                   img_idx, ann_idx, img_entries, ann_entries, written,
                   read_log, error, fn_vars>>

\* random.shuffle(img_label_pairs): some permutation of the list.
Shuffle ==
    /\ pc = "shuffle"
    /\ \E p \in Perms(Len(img_label_pairs)) :
          img_label_pairs' =
              [k \in 1..Len(img_label_pairs) |-> img_label_pairs[p[k]]]
    /\ pc' = "split"
    /\ UNCHANGED <<style, val_N, test_N, label_files, splits, split_i, pos,
                   img_idx, ann_idx, img_entries, ann_entries, written,
                   read_log, error, fn_vars>>

\* tot_N, train_N, split_sample_list and the splits dict.
MakeSplits ==
    /\ pc = "split"
    /\ LET tot_N == Len(img_label_pairs)
           train_N == tot_N - val_N - test_N
           lists == split_sample_list(img_label_pairs,
                                      <<train_N, val_N, test_N>>)
       IN  splits' = [train |-> lists[1], val |-> lists[2], test |-> lists[3]]
    /\ split_i' = 1
    /\ pc' = "splits"
    /\ UNCHANGED <<style, val_N, test_N, label_files, img_label_pairs, pos,
                   img_idx, ann_idx, img_entries, ann_entries, written,
                   read_log, error, fn_vars>>

\* BeginSplit with the annotation counter carried over from the last split.
BeginSplitKeepsCounter ==
    /\ pc = "splits"
    /\ split_i <= Len(SplitNames)
    /\ img_idx' = 0
    /\ img_entries' = <<>>
    /\ ann_entries' = <<>>
    /\ pos' = 1
    /\ pc' = "pairs"
    /\ UNCHANGED <<style, val_N, test_N, label_files, img_label_pairs, splits,
                   split_i, written, read_log, error, ann_idx, fn_vars>>

\* Head of the outer loop: the counters and lists of the next split.
BeginSplit ==
    /\ pc = "splits"
    /\ split_i <= Len(SplitNames)
    /\ img_idx' = 0
    /\ ann_idx' = 0
    /\ img_entries' = <<>>
    /\ ann_entries' = <<>>
    /\ pos' = 1
    /\ pc' = "pairs"
    /\ UNCHANGED <<style, val_N, test_N, label_files, img_label_pairs, splits,
                   split_i, written, read_log, error, fn_vars>>

\* ProcessPair with the image counter advanced only for a pair that yielded
\* annotations.
ProcessPairSkipsEmpty ==
    /\ pc = "pairs"
    /\ pos <= Len(CurSplit)
    /\ LET pair == CurSplit[pos]
           img_path == pair[1]
           ann_path == pair[2]
           file == label_files[ann_path.n]
           img_entry == gen_img_entry(img_path, img_idx)
           r == gen_ann_entries(file, ann_idx, img_idx, style)
       IN  /\ img_entries' = Append(img_entries, img_entry)
           /\ read_log' = IF file.ok THEN Append(read_log, ann_path)
                          ELSE read_log
           /\ IF r.raised # "none"
              THEN /\ pc' = "failed"
                   /\ error' = r.raised
                   /\ UNCHANGED <<ann_entries, ann_idx, img_idx, pos>>
              ELSE /\ ann_entries' = ann_entries \o r.entries
                   /\ ann_idx' = r.ann_idx
                   /\ img_idx' = IF r.entries # <<>> THEN img_idx + 1
                                 ELSE img_idx
                   /\ pos' = pos + 1
                   /\ UNCHANGED <<pc, error>>
    /\ UNCHANGED <<style, val_N, test_N, label_files, img_label_pairs, splits,
                   split_i, written, fn_vars>>

\* Body of the inner loop for one pair.
ProcessPair ==
    /\ pc = "pairs"
    /\ pos <= Len(CurSplit)
    /\ LET pair == CurSplit[pos]
           img_path == pair[1]
           ann_path == pair[2]
           file == label_files[ann_path.n]
           img_entry == gen_img_entry(img_path, img_idx)
           r == gen_ann_entries(file, ann_idx, img_idx, style)
       IN  /\ img_entries' = Append(img_entries, img_entry)
           /\ read_log' = IF file.ok THEN Append(read_log, ann_path)
                          ELSE read_log
           /\ IF r.raised # "none"
              THEN /\ pc' = "failed"
                   /\ error' = r.raised
                   /\ UNCHANGED <<ann_entries, ann_idx, img_idx, pos>>
              ELSE /\ ann_entries' = ann_entries \o r.entries
                   /\ ann_idx' = r.ann_idx
                   /\ img_idx' = img_idx + 1
                   /\ pos' = pos + 1
                   /\ UNCHANGED <<pc, error>>
    /\ UNCHANGED <<style, val_N, test_N, label_files, img_label_pairs, splits,
                   split_i, written, fn_vars>>

\* After the inner loop: gen_cat_entries and write_json_file.
EndSplit ==
    /\ pc = "pairs"
    /\ pos > Len(CurSplit)
    /\ LET cat == gen_cat_entries(style)
       IN  IF cat.raised # "none"
           THEN /\ pc' = "failed"
                /\ error' = cat.raised
                /\ UNCHANGED <<written, split_i>>
           ELSE /\ written' = Append(written,
                                     write_json_file(cat.value, img_entries,
                                                     ann_entries,
                                                     SplitNames[split_i]))
                /\ split_i' = split_i + 1
                /\ pc' = "splits"
                /\ UNCHANGED error
    /\ UNCHANGED <<style, val_N, test_N, label_files, img_label_pairs, splits,
                   pos, img_idx, ann_idx, img_entries, ann_entries, read_log,
                   fn_vars>>

\* The outer loop is exhausted: main returns.
Finish ==
    /\ pc = "splits"
    /\ split_i > Len(SplitNames)
    /\ pc' = "done"
    /\ UNCHANGED <<style, val_N, test_N, label_files, img_label_pairs, splits,
                   split_i, pos, img_idx, ann_idx, img_entries, ann_entries,
                   written, read_log, error, fn_vars>>

Next ==
    \/ Collect
    \/ Shuffle
    \/ MakeSplits
    \/ BeginSplit
    \/ ProcessPair
    \/ EndSplit
    \/ Finish

Spec == Init /\ [][Next]_vars

----------------------------------------------------------------------------
(* Direct calls of the annotation builders *)

\* Label files handed directly to gen_ann_entries.
FileRecords == { Rec(c, <<10, 20, 30, 50>>) : c \in Tokens }
AnnFiles ==
    { [ok |-> TRUE, anns |-> a] :
          a \in UNION { [1..n -> FileRecords] : n \in 0..MaxAnns } }
    \cup { [ok |-> FALSE, anns |-> <<>>] }

EntryCalls ==
    { [op |-> "gen_ann_entry", file |-> [ok |-> TRUE, anns |-> <<Rec(c, b)>>],
       ann_idx |-> n, img_idx |-> i, style |-> s] :
          c \in Tokens, b \in BBoxes, n \in 0..MaxIdx, i \in 0..MaxIdx,
          s \in Styles }

EntriesCalls ==
    { [op |-> "gen_ann_entries", file |-> f,
       ann_idx |-> n, img_idx |-> i, style |-> s] :
          f \in AnnFiles, n \in 0..MaxIdx, i \in 0..MaxIdx, s \in Styles }

InitBuild ==
    /\ call \in EntryCalls \cup EntriesCalls
    /\ ret = NoRet
    /\ style = call.style
    /\ val_N = 0
    /\ test_N = 0
    /\ label_files = <<>>
    /\ img_label_pairs = <<>>
    /\ splits = [train |-> <<>>, val |-> <<>>, test |-> <<>>]
    /\ pc = "call"
    /\ split_i = 0
    /\ pos = 0
    /\ img_idx = 0
    /\ ann_idx = 0
    /\ img_entries = <<>>
    /\ ann_entries = <<>>
    /\ written = <<>>
    /\ read_log = <<>>
    /\ error = "none"

\* gen_ann_entry(ann_raw, ann_idx, img_idx, dataset_style)
CallGenAnnEntry ==
    /\ call.op = "gen_ann_entry"
    /\ ~ret.done
    /\ LET r == gen_ann_entry(call.file.anns[1], call.ann_idx, call.img_idx,
                              call.style)
       IN  ret' = [done |-> TRUE, raised |-> r.raised, entries |-> r.entry,
                   ann_idx |-> r.ann_idx]
    /\ UNCHANGED <<call, run_vars>>

\* gen_ann_entries(ann_path, ann_idx, img_idx, dataset_style)
CallGenAnnEntries ==
    /\ call.op = "gen_ann_entries"
    /\ ~ret.done
    /\ LET r == gen_ann_entries(call.file, call.ann_idx, call.img_idx,
                                call.style)
       IN  ret' = [done |-> TRUE, raised |-> r.raised, entries |-> r.entries,
                   ann_idx |-> r.ann_idx]
    /\ UNCHANGED <<call, run_vars>>

NextBuild ==
    \/ CallGenAnnEntry
    \/ CallGenAnnEntries

SpecBuild == InitBuild /\ [][NextBuild]_vars

----------------------------------------------------------------------------
(* Vocabulary of the properties *)

Elems(seq) == { seq[k] : k \in DOMAIN seq }

\* Number of pairs found and the train count main derives from it.
TotN == Len(label_files)
TrainN == TotN - val_N - test_N

\* main has built the splits.
SplitsMade == pc \in {"splits", "pairs", "done", "failed"} /\ split_i >= 1

\* The five classes the cityscapes style drops.
IgnoredClasses == {"UtilityVehicle", "Trailer", "CaravanTransporter",
                   "EmergencyVehicle", "Animal"}

IsIgnored(c, s) == s = "cityscapes" /\ c \in IgnoredClasses

\* The class is in the mapping table of a supported style.
KnownToken(c) == c \in DOMAIN CATEGORY_A2D2_IDX

\* The category id a class maps to in a supported style (not ignored).
MapsTo(c, s) ==
    IF s = "a2d2" THEN CATEGORY_A2D2_IDX[c] ELSE CATEGORY_CITYSCAPES_IDX[c][1]

\* Corner-size form of a corner-corner box.
CocoBBox(b) == << b[1], b[2], b[3] - b[1], b[4] - b[2] >>

\* Records of a label file that are not ignored in style s.
Kept(anns, s) == { j \in 1..Len(anns) : ~IsIgnored(anns[j].class, s) }

\* The label file of the pair at position j of a split.
FileOf(split, j) == label_files[split[j][2].n]

RECURSIVE KeptUpTo(_, _, _)
KeptUpTo(split, m, s) ==
    IF m = 0 THEN 0
    ELSE KeptUpTo(split, m - 1, s)
         + Cardinality(Kept(FileOf(split, m).anns, s))

\* ids 0, 1, ..., Len - 1 in sequence order
DenseIds(entries) == \A j \in 1..Len(entries) : entries[j].id = j - 1

\* Annotation a is the conversion of some record of the file.
CameFrom(a, file, s) ==
    \E j \in 1..Len(file.anns) :
        /\ KnownToken(file.anns[j].class)
        /\ ~IsIgnored(file.anns[j].class, s)
        /\ a.category_id = MapsTo(file.anns[j].class, s)
        /\ a.bbox = CocoBBox(file.anns[j].bbox)

\* Every annotation refers to exactly one image entry, that of the pair of
\* the split whose label file it was built from.
RefersToOwnImage(anns, imgs, split, s) ==
    \A k \in 1..Len(anns) :
        /\ Cardinality({ j \in 1..Len(imgs) : imgs[j].id = anns[k].image_id }) = 1
        /\ \E j \in 1..Len(imgs) :
              /\ imgs[j].id = anns[k].image_id
              /\ j <= Len(split)
              /\ imgs[j].file_name = split[j][1]
              /\ CameFrom(anns[k], FileOf(split, j), s)

\* One image entry per pair of the split prefix of length m, ids 0..m-1.
ImagesOfPrefix(imgs, split, m) ==
    /\ Len(imgs) = m
    /\ m <= Len(split)
    /\ \A j \in 1..m :
          /\ imgs[j].id = j - 1
          /\ imgs[j].file_name = split[j][1]

GoodFile(file) ==
    file.ok /\ \A j \in 1..Len(file.anns) : KnownToken(file.anns[j].class)

HasUnknownToken(file) ==
    file.ok /\ \E j \in 1..Len(file.anns) : ~KnownToken(file.anns[j].class)

SplitIndex(name) == CHOOSE k \in 1..Len(SplitNames) : SplitNames[k] = name

----------------------------------------------------------------------------
(* Properties *)

\* C1: when val + test <= number of pairs, the train, val and test lists are
\* pairwise disjoint, have train, val and test elements, and concatenated in
\* that order they are the shuffled pair list, which holds every collected
\* pair once.
C1_SplitsPartition ==
    (SplitsMade /\ TrainN >= 0) =>
        /\ splits.train \o splits.val \o splits.test = img_label_pairs
        /\ Len(splits.train) = TrainN
        /\ Len(splits.val) = val_N
        /\ Len(splits.test) = test_N
        /\ Elems(splits.train) \cap Elems(splits.val) = {}
        /\ Elems(splits.train) \cap Elems(splits.test) = {}
        /\ Elems(splits.val) \cap Elems(splits.test) = {}
        /\ Len(img_label_pairs) = TotN
        /\ Elems(img_label_pairs) =
               Elems(collect_img_label_path_pairs(label_files))

C1_Witness ==
    /\ SplitsMade
    /\ TrainN >= 0
    /\ splits.train # <<>>
    /\ splits.val # <<>>
    /\ splits.test # <<>>
    /\ img_label_pairs # collect_img_label_path_pairs(label_files)

\* C2: when the derived train count is negative the run fails before any
\* sample is processed: no split list is built, no label file is read and no
\* output is written.
C2_NegativeTrainRejected ==
    (TrainN < 0) =>
        /\ pc \notin {"pairs", "done"}
        /\ splits = [train |-> <<>>, val |-> <<>>, test |-> <<>>]
        /\ read_log = <<>>
        /\ written = <<>>

\* C3: while a split is assembled the annotation ids are 0, 1, ..., k-1 in
\* sequence order, k being the number of non-ignored records of the label
\* files processed so far in the split, and the counter equals k; the same
\* holds of every written split.
C3_AnnIdsDense ==
    /\ pc = "pairs" =>
          /\ ann_idx = KeptUpTo(CurSplit, pos - 1, style)
          /\ Len(ann_entries) = ann_idx
          /\ DenseIds(ann_entries)
    /\ \A k \in 1..Len(written) :
          /\ Len(written[k].annotations) =
                 KeptUpTo(splits[written[k].split],
                          Len(splits[written[k].split]), style)
          /\ DenseIds(written[k].annotations)

C3_Witness ==
    /\ pc = "pairs"
    /\ style = "cityscapes"
    /\ split_i = 2
    /\ pos = 2
    /\ Len(written[1].annotations) = 2
    /\ Len(splits.train) = 2
    /\ Len(ann_entries) = 1
    /\ ann_entries[1].id = 0
    /\ Len(FileOf(CurSplit, 1).anns) = 2

\* C4: the image entries of a split are one per pair of the split, with ids
\* 0, 1, ..., m-1 in split order, whether or not the pair's label file
\* yielded an annotation.
C4_ImageIdsDense ==
    /\ pc = "pairs" =>
          /\ img_idx = pos - 1
          /\ ImagesOfPrefix(img_entries, CurSplit, pos - 1)
    /\ \A k \in 1..Len(written) :
          ImagesOfPrefix(written[k].images, splits[written[k].split],
                         Len(splits[written[k].split]))

C4_Witness ==
    \E k \in 1..Len(written) :
        /\ Len(written[k].images) = 2
        /\ written[k].annotations # <<>>
        /\ \A a \in Elems(written[k].annotations) : a.image_id = 1
        /\ written[k].images[2].id = 1

\* C5: every accumulated annotation's image_id is the id of exactly one
\* image entry of the same split, the entry of the pair whose label file the
\* annotation was built from.
C5_ImageIdRefers ==
    /\ pc \in {"pairs", "failed"} =>
          RefersToOwnImage(ann_entries, img_entries, CurSplit, style)
    /\ \A k \in 1..Len(written) :
          RefersToOwnImage(written[k].annotations, written[k].images,
                           splits[written[k].split], style)

C5_Witness ==
    /\ pc = "pairs"
    /\ Len(img_entries) = 2
    /\ Len(ann_entries) = 1
    /\ ann_entries[1].image_id = 1
    /\ ann_entries[1].id = 0

\* C6: for a record whose class maps to category id c in the target style,
\* gen_ann_entry returns the entry with id = n, image_id = i, category_id = c,
\* iscrowd = 0, area = 100 and bbox = [x_min, y_min, x_max - x_min,
\* y_max - y_min], and the next id n + 1.
C6_BuildKept ==
    LET r == call.file.anns[1]
    IN  (/\ ret.done
         /\ call.op = "gen_ann_entry"
         /\ call.style \in SupportedStyles
         /\ KnownToken(r.class)
         /\ ~IsIgnored(r.class, call.style)) =>
            /\ ret.raised = "none"
            /\ ret.entries =
                   << [id |-> call.ann_idx,
                       image_id |-> call.img_idx,
                       category_id |-> MapsTo(r.class, call.style),
                       iscrowd |-> 0,
                       area |-> 100,
                       bbox |-> << r.bbox[1], r.bbox[2],
                                   r.bbox[3] - r.bbox[1],
                                   r.bbox[4] - r.bbox[2] >>] >>
            /\ ret.ann_idx = call.ann_idx + 1

C6_Witness ==
    /\ ret.done
    /\ call.op = "gen_ann_entry"
    /\ call.style = "cityscapes"
    /\ call.file.anns[1] = Rec("Pedestrian", <<10, 20, 30, 50>>)
    /\ call.ann_idx = 2
    /\ call.img_idx = 1
    /\ ret.entries = << [id |-> 2, image_id |-> 1, category_id |-> 24,
                         iscrowd |-> 0, area |-> 100,
                         bbox |-> <<10, 20, 20, 30>>] >>
    /\ ret.ann_idx = 3

\* C7: in the cityscapes style gen_ann_entry returns no entry and the
\* unchanged counter for UtilityVehicle, Trailer, CaravanTransporter,
\* EmergencyVehicle and Animal, and gen_ann_entries over a file of known
\* classes returns one entry per other record, in file order, and the counter
\* advanced by their number.
C7_IgnoredKeepsCounter ==
    /\ (/\ ret.done
        /\ call.op = "gen_ann_entry"
        /\ call.style = "cityscapes"
        /\ call.file.anns[1].class \in IgnoredClasses) =>
           /\ ret.raised = "none"
           /\ ret.entries = None
           /\ ret.ann_idx = call.ann_idx
    /\ (/\ ret.done
        /\ call.op = "gen_ann_entries"
        /\ call.style = "cityscapes"
        /\ GoodFile(call.file)) =>
           LET anns == call.file.anns
               kept == { j \in 1..Len(anns) : anns[j].class \notin IgnoredClasses }
           IN  /\ ret.raised = "none"
               /\ ret.ann_idx = call.ann_idx + Cardinality(kept)
               /\ Len(ret.entries) = Cardinality(kept)
               /\ \A k \in 1..Len(ret.entries) :
                     \E j \in kept :
                         /\ Cardinality({ h \in kept : h < j }) = k - 1
                         /\ ret.entries[k].category_id =
                                CATEGORY_CITYSCAPES_IDX[anns[j].class][1]
                         /\ ret.entries[k].id = call.ann_idx + k - 1

C7_Witness ==
    /\ ret.done
    /\ call.op = "gen_ann_entries"
    /\ call.style = "cityscapes"
    /\ Len(call.file.anns) = 2
    /\ call.file.anns[1].class = "Trailer"
    /\ call.file.anns[2].class = "Bus"
    /\ call.ann_idx = 1
    /\ Len(ret.entries) = 1
    /\ ret.entries[1].id = 1
    /\ ret.ann_idx = 2

\* C8: with a style that is neither a2d2 nor cityscapes the run fails with a
\* configuration error before any I/O: no label file has been read and no
\* output file written, and the run does not complete.
C8_UnknownStyleNoIO ==
    (style \notin SupportedStyles) =>
        /\ read_log = <<>>
        /\ written = <<>>
        /\ pc # "done"

\* C9: processing a pair whose readable label file holds a class token
\* absent from the table of the (supported) style raises KeyError: the run
\* stops there with nothing added for the pair, nothing written for the
\* split it is in, and nothing is written afterwards.
C9_UnknownTokenAborts ==
    [][ /\ (/\ pc = "pairs"
            /\ pos <= Len(CurSplit)
            /\ style \in SupportedStyles
            /\ HasUnknownToken(FileOf(CurSplit, pos))) =>
               /\ pc' = "failed"
               /\ error' = "KeyError"
               /\ ann_entries' = ann_entries
               /\ ann_idx' = ann_idx
               /\ written' = written
               /\ \A k \in 1..Len(written) :
                     SplitIndex(written[k].split) < split_i
        /\ (pc = "failed") => (pc' = "failed" /\ written' = written)
      ]_vars

C9_Witness ==
    /\ pc = "failed"
    /\ error = "KeyError"
    /\ style = "cityscapes"
    /\ split_i = 2
    /\ Len(written) = 1
    /\ written[1].split = "train"
    /\ Len(FileOf(CurSplit, pos).anns) = 2
    /\ ann_entries = <<>>

\* C10: a run in a supported style (a2d2 or cityscapes) whose label files are
\* all readable and hold only known class tokens does not fail, and when it
\* ends it has written train, val and test, each with the images and
\* annotations of its split.
C10_GoodRunCompletes ==
    (/\ style \in SupportedStyles
     /\ pc \in {"collect", "shuffle", "split", "splits", "pairs", "done",
                "failed"}
     /\ \A n \in 1..Len(label_files) : GoodFile(label_files[n])) =>
        /\ pc # "failed"
        /\ (pc = "done") =>
              /\ Len(written) = Len(SplitNames)
              /\ \A k \in 1..Len(written) :
                    /\ written[k].split = SplitNames[k]
                    /\ Len(written[k].images) = Len(splits[SplitNames[k]])

====
